---- MODULE Spec2Model ----
(***************************************************************************)
(* A model of pkg/sql/execstats/traceanalyzer.go: FlowMetadata built from  *)
(* a physical plan, TraceAnalyzer.AddTrace, TraceAnalyzer.ProcessStats,    *)
(* QueryLevelStats.Accumulate and the package-level GetQueryLevelStats.    *)
(*                                                                         *)
(* Go maps are functions whose DOMAIN is the set of keys present; a range  *)
(* over a map visits its keys in an order the action chooses.  A nil       *)
(* *ComponentStats is the empty sequence, a non-nil one a one-element      *)
(* sequence holding the bag.  An error is a sequence of leaf errors, nil   *)
(* being the empty sequence.                                               *)
(***************************************************************************)
EXTENDS Integers, Sequences, FiniteSets, TLC

VARIABLES plan, md, nodeLevelStats, queryLevelStats, last, arg, visited, ret,
          fms, fms0, trace, drv

vars == <<plan, md, nodeLevelStats, queryLevelStats, last, arg, visited, ret,
          fms, fms0, trace, drv>>

analyzerVars == <<plan, md, nodeLevelStats, queryLevelStats, last, arg, visited, ret>>
driverVars == <<fms, fms0, trace, drv>>

(***************************************************************************)
(* Bounds of the model.                                                    *)
(***************************************************************************)
\* statistics take the values 0..MaxVal
MaxVal == 2
\* a flow-slot list holds at most MaxFlowLen bags
MaxFlowLen == 2

(***************************************************************************)
(* Generic helpers: Go map read, map write, += on a map entry, orders of   *)
(* iteration over a map.                                                   *)
(***************************************************************************)
EmptyMap == <<>>

Get(m, k) == IF k \in DOMAIN m THEN m[k] ELSE 0

Put(m, k, v) == [x \in (DOMAIN m) \cup {k} |-> IF x = k THEN v ELSE m[x]]

AddTo(m, k, v) == Put(m, k, Get(m, k) + v)

Orders(S) == {o \in [1..Cardinality(S) -> S] : \A i, j \in 1..Cardinality(S) : o[i] = o[j] => i = j}

AnOrder(S) == CHOOSE o \in Orders(S) : TRUE

(***************************************************************************)
(* optional.Uint / optional.Duration: a value that is set or not; Value()  *)
(* of an unset one is 0.                                                   *)
(***************************************************************************)
Unset == [set |-> FALSE, v |-> 0]

Some(x) == [set |-> TRUE, v |-> x]

HasValue(o) == o.set

Value(o) == IF o.set THEN o.v ELSE 0

(***************************************************************************)
(* execinfrapb.ComponentStats (the statistics bag) and pointers to it.     *)
(***************************************************************************)
Nil == <<>>

Ptr(b) == <<b>>

Deref(p) == p[1]

Bag(br, mr, bs, ms, kvb, kvt, kvtime, kvcont, mem) ==
    [NetRx |-> [BytesReceived |-> br, MessagesReceived |-> mr],
     NetTx |-> [BytesSent |-> bs, MessagesSent |-> ms],
     KV |-> [BytesRead |-> kvb, TuplesRead |-> kvt, KVTime |-> kvtime, ContentionTime |-> kvcont],
     FlowStats |-> [MaxMemUsage |-> mem]]

(***************************************************************************)
(* Errors: errors.Errorf, errors.Wrap and errors.CombineErrors.            *)
(***************************************************************************)
NoErr == <<>>

Errorf(msg, args) == <<[wrap |-> <<>>, msg |-> msg, args |-> args]>>

Wrap(err, prefix) == [i \in 1..Len(err) |-> [err[i] EXCEPT !.wrap = <<prefix>> \o @]]

CombineErrors(err, otherErr) == err \o otherErr

(***************************************************************************)
(* NewFlowMetadata                                                         *)
(***************************************************************************)
EmptyFlowMetadata == [processorStats |-> EmptyMap, streamStats |-> EmptyMap, flowStats |-> EmptyMap]

\* AnnotateStreams registering local streams as well.
RECURSIVE AnnotateStreamsAll(_, _, _)
AnnotateStreamsAll(a, streams, nodeID) ==
    IF streams = <<>> THEN a
    ELSE LET stream == Head(streams)
             a1 == [a EXCEPT !.streamStats =
                            Put(@, stream.StreamID,
                                [originNodeID |-> nodeID,
                                 destinationNodeID |-> stream.TargetNodeID,
                                 stats |-> Nil])]
         IN AnnotateStreamsAll(a1, Tail(streams), nodeID)

RECURSIVE AnnotateStreams(_, _, _)
AnnotateStreams(a, streams, nodeID) ==
    IF streams = <<>> THEN a
    ELSE LET stream == Head(streams)
             a1 == IF stream.Type = "REMOTE"
                   THEN [a EXCEPT !.streamStats =
                            Put(@, stream.StreamID,
                                [originNodeID |-> nodeID,
                                 destinationNodeID |-> stream.TargetNodeID,
                                 stats |-> Nil])]
                   ELSE a
         IN AnnotateStreams(a1, Tail(streams), nodeID)

RECURSIVE AnnotateOutputs(_, _, _)
AnnotateOutputs(a, outputs, nodeID) ==
    IF outputs = <<>> THEN a
    ELSE AnnotateOutputs(AnnotateStreams(a, Head(outputs).Streams, nodeID), Tail(outputs), nodeID)

RECURSIVE AnnotateProcessors(_, _, _)
AnnotateProcessors(a, procs, nodeID) ==
    IF procs = <<>> THEN a
    ELSE LET proc == Head(procs)
             a1 == [a EXCEPT !.processorStats =
                       Put(@, proc.ProcessorID, [nodeID |-> nodeID, stats |-> Nil])]
         IN AnnotateProcessors(AnnotateOutputs(a1, proc.Output, nodeID), Tail(procs), nodeID)

RECURSIVE AnnotateFlows(_, _, _)
AnnotateFlows(a, flows, order) ==
    IF order = <<>> THEN a
    ELSE LET nodeID == Head(order)
             a1 == [a EXCEPT !.flowStats = Put(@, nodeID, [stats |-> <<>>])]
         IN AnnotateFlows(AnnotateProcessors(a1, flows[nodeID].Processors, nodeID), flows, Tail(order))

NewFlowMetadataIn(flows, order) == AnnotateFlows(EmptyFlowMetadata, flows, order)

(***************************************************************************)
(* QueryLevelStats.Accumulate                                              *)
(***************************************************************************)
ZeroQueryLevelStats ==
    [NetworkBytesSent |-> 0, MaxMemUsage |-> 0, KVBytesRead |-> 0, KVRowsRead |-> 0,
     KVTime |-> 0, NetworkMessages |-> 0, ContentionTime |-> 0]

\* Accumulate adding the peak memory up like the other fields.
AccumulateSumsMaxMem(s, other) ==
    [NetworkBytesSent |-> s.NetworkBytesSent + other.NetworkBytesSent,
     MaxMemUsage |-> s.MaxMemUsage + other.MaxMemUsage,
     KVBytesRead |-> s.KVBytesRead + other.KVBytesRead,
     KVRowsRead |-> s.KVRowsRead + other.KVRowsRead,
     KVTime |-> s.KVTime + other.KVTime,
     NetworkMessages |-> s.NetworkMessages + other.NetworkMessages,
     ContentionTime |-> s.ContentionTime + other.ContentionTime]

Accumulate(s, other) ==
    [NetworkBytesSent |-> s.NetworkBytesSent + other.NetworkBytesSent,
     MaxMemUsage |-> IF other.MaxMemUsage > s.MaxMemUsage THEN other.MaxMemUsage ELSE s.MaxMemUsage,
     KVBytesRead |-> s.KVBytesRead + other.KVBytesRead,
     KVRowsRead |-> s.KVRowsRead + other.KVRowsRead,
     KVTime |-> s.KVTime + other.KVTime,
     NetworkMessages |-> s.NetworkMessages + other.NetworkMessages,
     ContentionTime |-> s.ContentionTime + other.ContentionTime]

(***************************************************************************)
(* TraceAnalyzer.AddTrace.  m is the map ExtractStatsFromSpans returns,    *)
(* from component ids [Type, ID, NodeID, FlowID] to bags; order is the     *)
(* order in which the range over m visits its keys.  The result holds the  *)
(* FlowMetadata as the loop left it, the returned error, and the set of    *)
(* components the loop visited (the one it stopped at included).           *)
(***************************************************************************)
ProcessorMissing(id) ==
    Errorf("trace has span for processor %d but the processor does not exist in the physical plan", <<id>>)

StreamMissing(id) ==
    Errorf("trace has span for stream %d but the stream does not exist in the physical plan", <<id>>)

FlowMissing(flowID, nodeID) ==
    Errorf("trace has span for flow %s on node %s but the flow does not exist in the physical plan",
           <<flowID, nodeID>>)

\* AddTraceLoop with a bag for an unknown flow node dropped instead of reported.
RECURSIVE AddTraceLoopDropsFlow(_, _, _, _)
AddTraceLoopDropsFlow(a, m, order, seen) ==
    IF order = <<>> THEN [md |-> a, err |-> NoErr, visited |-> seen]
    ELSE LET component == Head(order)
             componentStats == m[component]
             seen1 == seen \cup {component}
         IN CASE component.Type = "PROCESSOR" ->
                    IF component.ID \notin DOMAIN a.processorStats
                    THEN [md |-> a, err |-> ProcessorMissing(component.ID), visited |-> seen1]
                    ELSE AddTraceLoopDropsFlow(
                           [a EXCEPT !.processorStats[component.ID].stats = Ptr(componentStats)],
                           m, Tail(order), seen1)
              [] component.Type = "STREAM" ->
                    IF component.ID \notin DOMAIN a.streamStats
                    THEN [md |-> a, err |-> StreamMissing(component.ID), visited |-> seen1]
                    ELSE AddTraceLoopDropsFlow(
                           [a EXCEPT !.streamStats[component.ID].stats = Ptr(componentStats)],
                           m, Tail(order), seen1)
              [] component.Type = "FLOW" ->
                    IF component.NodeID \notin DOMAIN a.flowStats
                    THEN AddTraceLoopDropsFlow(a, m, Tail(order), seen1)
                    ELSE AddTraceLoopDropsFlow(
                           [a EXCEPT !.flowStats[component.NodeID].stats = Append(@, componentStats)],
                           m, Tail(order), seen1)
              [] OTHER -> AddTraceLoopDropsFlow(a, m, Tail(order), seen1)

\* AddTraceLoop attaching a flow bag the way it attaches a processor bag: the
\* node keeps the newest one only.
RECURSIVE AddTraceLoopOverwritesFlow(_, _, _, _)
AddTraceLoopOverwritesFlow(a, m, order, seen) ==
    IF order = <<>> THEN [md |-> a, err |-> NoErr, visited |-> seen]
    ELSE LET component == Head(order)
             componentStats == m[component]
             seen1 == seen \cup {component}
         IN CASE component.Type = "PROCESSOR" ->
                    IF component.ID \notin DOMAIN a.processorStats
                    THEN [md |-> a, err |-> ProcessorMissing(component.ID), visited |-> seen1]
                    ELSE AddTraceLoopOverwritesFlow(
                           [a EXCEPT !.processorStats[component.ID].stats = Ptr(componentStats)],
                           m, Tail(order), seen1)
              [] component.Type = "STREAM" ->
                    IF component.ID \notin DOMAIN a.streamStats
                    THEN [md |-> a, err |-> StreamMissing(component.ID), visited |-> seen1]
                    ELSE AddTraceLoopOverwritesFlow(
                           [a EXCEPT !.streamStats[component.ID].stats = Ptr(componentStats)],
                           m, Tail(order), seen1)
              [] component.Type = "FLOW" ->
                    IF component.NodeID \notin DOMAIN a.flowStats
                    THEN [md |-> a, err |-> FlowMissing(component.FlowID, component.NodeID),
                          visited |-> seen1]
                    ELSE AddTraceLoopOverwritesFlow(
                           [a EXCEPT !.flowStats[component.NodeID].stats = <<componentStats>>],
                           m, Tail(order), seen1)
              [] OTHER -> AddTraceLoopOverwritesFlow(a, m, Tail(order), seen1)

RECURSIVE AddTraceLoop(_, _, _, _)
AddTraceLoop(a, m, order, seen) ==
    IF order = <<>> THEN [md |-> a, err |-> NoErr, visited |-> seen]
    ELSE LET component == Head(order)
             componentStats == m[component]
             seen1 == seen \cup {component}
         IN CASE component.Type = "PROCESSOR" ->
                    IF component.ID \notin DOMAIN a.processorStats
                    THEN [md |-> a, err |-> ProcessorMissing(component.ID), visited |-> seen1]
                    ELSE AddTraceLoop(
                           [a EXCEPT !.processorStats[component.ID].stats = Ptr(componentStats)],
                           m, Tail(order), seen1)
              [] component.Type = "STREAM" ->
                    IF component.ID \notin DOMAIN a.streamStats
                    THEN [md |-> a, err |-> StreamMissing(component.ID), visited |-> seen1]
                    ELSE AddTraceLoop(
                           [a EXCEPT !.streamStats[component.ID].stats = Ptr(componentStats)],
                           m, Tail(order), seen1)
              [] component.Type = "FLOW" ->
                    IF component.NodeID \notin DOMAIN a.flowStats
                    THEN [md |-> a, err |-> FlowMissing(component.FlowID, component.NodeID),
                          visited |-> seen1]
                    ELSE AddTraceLoop(
                           [a EXCEPT !.flowStats[component.NodeID].stats = Append(@, componentStats)],
                           m, Tail(order), seen1)
              [] OTHER -> AddTraceLoop(a, m, Tail(order), seen1)

\* AddTraceIn undoing the entries it applied when it fails.
AddTraceInRollsBack(a, m, order) ==
    LET r == AddTraceLoop(a, m, order, {})
    IN IF r.err # NoErr THEN [r EXCEPT !.md = a] ELSE r

AddTraceIn(a, m, order) == AddTraceLoop(a, m, order, {})

(***************************************************************************)
(* getNetworkBytesFromComponentStats, getNumNetworkMessagesFromComponents- *)
(* Stats: the value and the error returned.                                *)
(***************************************************************************)
\* getNetworkBytesFromComponentStats taking neither value set for zero bytes.
getNetworkBytesNeitherIsZero(v) ==
    IF HasValue(v.NetRx.BytesReceived)
    THEN IF HasValue(v.NetTx.BytesSent)
         THEN [val |-> 0,
               err |-> Errorf("could not get network bytes; both BytesReceived and BytesSent are set", <<>>)]
         ELSE [val |-> Value(v.NetRx.BytesReceived), err |-> NoErr]
    ELSE [val |-> Value(v.NetTx.BytesSent), err |-> NoErr]

getNetworkBytesFromComponentStats(v) ==
    IF HasValue(v.NetRx.BytesReceived)
    THEN IF HasValue(v.NetTx.BytesSent)
         THEN [val |-> 0,
               err |-> Errorf("could not get network bytes; both BytesReceived and BytesSent are set", <<>>)]
         ELSE [val |-> Value(v.NetRx.BytesReceived), err |-> NoErr]
    ELSE IF HasValue(v.NetTx.BytesSent)
         THEN [val |-> Value(v.NetTx.BytesSent), err |-> NoErr]
         ELSE [val |-> 0,
               err |-> Errorf("could not get network bytes; neither BytesReceived and BytesSent is set", <<>>)]

getNumNetworkMessagesFromComponentsStats(v) ==
    IF HasValue(v.NetRx.MessagesReceived)
    THEN IF HasValue(v.NetTx.MessagesSent)
         THEN [val |-> 0,
               err |-> Errorf("could not get network messages; both MessagesReceived and MessagesSent are set", <<>>)]
         ELSE [val |-> Value(v.NetRx.MessagesReceived), err |-> NoErr]
    ELSE IF HasValue(v.NetTx.MessagesSent)
         THEN [val |-> Value(v.NetTx.MessagesSent), err |-> NoErr]
         ELSE [val |-> 0,
               err |-> Errorf("could not get network messages; neither MessagesReceived and MessagesSent is set", <<>>)]

(***************************************************************************)
(* TraceAnalyzer.ProcessStats, node level.  The state of the pass is       *)
(* [nls, errs]: the seven series and the combined error so far.            *)
(***************************************************************************)
EmptyNodeLevelStats ==
    [NetworkBytesSentGroupedByNode |-> EmptyMap,
     MaxMemoryUsageGroupedByNode |-> EmptyMap,
     KVBytesReadGroupedByNode |-> EmptyMap,
     KVRowsReadGroupedByNode |-> EmptyMap,
     KVTimeGroupedByNode |-> EmptyMap,
     NetworkMessagesGroupedByNode |-> EmptyMap,
     ContentionTimeGroupedByNode |-> EmptyMap]

\* AddProcessor overwriting the node's entries instead of adding to them.
AddProcessorOverwrites(nls, stats) ==
    [nls EXCEPT
        !.KVBytesReadGroupedByNode = Put(@, stats.nodeID, Value(Deref(stats.stats).KV.BytesRead)),
        !.KVRowsReadGroupedByNode = Put(@, stats.nodeID, Value(Deref(stats.stats).KV.TuplesRead)),
        !.KVTimeGroupedByNode = Put(@, stats.nodeID, Value(Deref(stats.stats).KV.KVTime)),
        !.ContentionTimeGroupedByNode = Put(@, stats.nodeID, Value(Deref(stats.stats).KV.ContentionTime))]

\* lines 209-212: one processor with a non-nil bag
AddProcessor(nls, stats) ==
    [nls EXCEPT
        !.KVBytesReadGroupedByNode = AddTo(@, stats.nodeID, Value(Deref(stats.stats).KV.BytesRead)),
        !.KVRowsReadGroupedByNode = AddTo(@, stats.nodeID, Value(Deref(stats.stats).KV.TuplesRead)),
        !.KVTimeGroupedByNode = AddTo(@, stats.nodeID, Value(Deref(stats.stats).KV.KVTime)),
        !.ContentionTimeGroupedByNode = AddTo(@, stats.nodeID, Value(Deref(stats.stats).KV.ContentionTime))]

RECURSIVE ProcessProcessorStats(_, _, _)
ProcessProcessorStats(nls, ps, order) ==
    IF order = <<>> THEN nls
    ELSE LET stats == ps[Head(order)]
         IN IF stats.stats = Nil
            THEN ProcessProcessorStats(nls, ps, Tail(order))
            ELSE ProcessProcessorStats(AddProcessor(nls, stats), ps, Tail(order))

\* UpdateMaxMem adding the value up instead of keeping the maximum.
UpdateMaxMemSums(series, nodeID, memUsage) == AddTo(series, nodeID, memUsage)

\* lines 237-239 and 261-263: the running maximum of one node
UpdateMaxMem(series, nodeID, memUsage) ==
    IF memUsage > Get(series, nodeID) THEN Put(series, nodeID, memUsage) ELSE series

\* AddStreamBytes crediting the stream's destination node.
AddStreamBytesToDestination(st, stats) ==
    LET r == getNetworkBytesFromComponentStats(Deref(stats.stats))
    IN IF r.err # NoErr
       THEN [st EXCEPT !.errs = CombineErrors(@, Wrap(r.err, "error calculating network bytes sent"))]
       ELSE [st EXCEPT !.nls.NetworkBytesSentGroupedByNode = AddTo(@, stats.destinationNodeID, r.val)]

\* lines 222-227: the stream's bytes go to its origin node, or its error to errs
AddStreamBytes(st, stats) ==
    LET r == getNetworkBytesFromComponentStats(Deref(stats.stats))
    IN IF r.err # NoErr
       THEN [st EXCEPT !.errs = CombineErrors(@, Wrap(r.err, "error calculating network bytes sent"))]
       ELSE [st EXCEPT !.nls.NetworkBytesSentGroupedByNode = AddTo(@, stats.originNodeID, r.val)]

\* lines 236-240
AddStreamMaxMem(st, stats) ==
    IF HasValue(Deref(stats.stats).FlowStats.MaxMemUsage)
    THEN [st EXCEPT !.nls.MaxMemoryUsageGroupedByNode =
             UpdateMaxMem(@, stats.originNodeID, Value(Deref(stats.stats).FlowStats.MaxMemUsage))]
    ELSE st

\* lines 242-247
AddStreamMessages(st, stats) ==
    LET r == getNumNetworkMessagesFromComponentsStats(Deref(stats.stats))
    IN IF r.err # NoErr
       THEN [st EXCEPT !.errs = CombineErrors(@, Wrap(r.err, "error calculating number of network messages"))]
       ELSE [st EXCEPT !.nls.NetworkMessagesGroupedByNode = AddTo(@, stats.originNodeID, r.val)]

\* ProcessStreamStats leaving a stream at its byte error, as a `continue` would.
RECURSIVE ProcessStreamStatsSkipsRest(_, _, _)
ProcessStreamStatsSkipsRest(st, ss, order) ==
    IF order = <<>> THEN st
    ELSE LET stats == ss[Head(order)]
         IN IF stats.stats = Nil
            THEN ProcessStreamStatsSkipsRest(st, ss, Tail(order))
            ELSE IF getNetworkBytesFromComponentStats(Deref(stats.stats)).err # NoErr
                 THEN ProcessStreamStatsSkipsRest(AddStreamBytes(st, stats), ss, Tail(order))
                 ELSE ProcessStreamStatsSkipsRest(
                        AddStreamMessages(AddStreamMaxMem(AddStreamBytes(st, stats), stats), stats),
                        ss, Tail(order))

RECURSIVE ProcessStreamStats(_, _, _)
ProcessStreamStats(st, ss, order) ==
    IF order = <<>> THEN st
    ELSE LET stats == ss[Head(order)]
         IN IF stats.stats = Nil
            THEN ProcessStreamStats(st, ss, Tail(order))
            ELSE ProcessStreamStats(
                   AddStreamMessages(AddStreamMaxMem(AddStreamBytes(st, stats), stats), stats),
                   ss, Tail(order))

\* FlowMaxMem adding the peaks of a node's list up.
RECURSIVE FlowMaxMemSums(_, _, _)
FlowMaxMemSums(series, nodeID, list) ==
    IF list = <<>> THEN series
    ELSE LET v == Head(list)
         IN IF HasValue(v.FlowStats.MaxMemUsage)
            THEN FlowMaxMemSums(AddTo(series, nodeID, Value(v.FlowStats.MaxMemUsage)), nodeID, Tail(list))
            ELSE FlowMaxMemSums(series, nodeID, Tail(list))

RECURSIVE FlowMaxMem(_, _, _)
FlowMaxMem(series, nodeID, list) ==
    IF list = <<>> THEN series
    ELSE LET v == Head(list)
         IN IF HasValue(v.FlowStats.MaxMemUsage)
            THEN FlowMaxMem(UpdateMaxMem(series, nodeID, Value(v.FlowStats.MaxMemUsage)), nodeID, Tail(list))
            ELSE FlowMaxMem(series, nodeID, Tail(list))

RECURSIVE ProcessFlowStats(_, _, _)
ProcessFlowStats(nls, fs, order) ==
    IF order = <<>> THEN nls
    ELSE LET nodeID == Head(order)
             stats == fs[nodeID]
         IN IF stats.stats = <<>>
            THEN ProcessFlowStats(nls, fs, Tail(order))
            ELSE ProcessFlowStats(
                   [nls EXCEPT !.MaxMemoryUsageGroupedByNode = FlowMaxMem(@, nodeID, stats.stats)],
                   fs, Tail(order))

(***************************************************************************)
(* TraceAnalyzer.ProcessStats, query level.                                *)
(***************************************************************************)
RECURSIVE SumSeries(_)
SumSeries(series) ==
    IF DOMAIN series = {} THEN 0
    ELSE LET k == CHOOSE x \in DOMAIN series : TRUE
         IN series[k] + SumSeries([x \in (DOMAIN series) \ {k} |-> series[x]])

RECURSIVE MaxSeries(_)
MaxSeries(series) ==
    IF DOMAIN series = {} THEN 0
    ELSE LET k == CHOOSE x \in DOMAIN series : TRUE
             rest == MaxSeries([x \in (DOMAIN series) \ {k} |-> series[x]])
         IN IF series[k] > rest THEN series[k] ELSE rest

\* The contention total taken from the contention-time series.
QueryContentionTimeFromContention(nls) == SumSeries(nls.ContentionTimeGroupedByNode)

\* The memory total summed over the nodes.
QueryMaxMemUsageSums(nls) == SumSeries(nls.MaxMemoryUsageGroupedByNode)

\* lines 304-306
QueryContentionTime(nls) == SumSeries(nls.KVTimeGroupedByNode)

\* lines 282-286
QueryMaxMemUsage(nls) == MaxSeries(nls.MaxMemoryUsageGroupedByNode)

ProcessQueryLevelStats(nls) ==
    [NetworkBytesSent |-> SumSeries(nls.NetworkBytesSentGroupedByNode),
     MaxMemUsage |-> QueryMaxMemUsage(nls),
     KVBytesRead |-> SumSeries(nls.KVBytesReadGroupedByNode),
     KVRowsRead |-> SumSeries(nls.KVRowsReadGroupedByNode),
     KVTime |-> SumSeries(nls.KVTimeGroupedByNode),
     NetworkMessages |-> SumSeries(nls.NetworkMessagesGroupedByNode),
     ContentionTime |-> QueryContentionTime(nls)]

\* The whole of ProcessStats on FlowMetadata a, the three ranges visiting their
\* maps in the orders po, so and fo: the series, the scalars and the error.
ProcessStatsIn(a, po, so, fo) ==
    LET nls1 == ProcessProcessorStats(EmptyNodeLevelStats, a.processorStats, po)
        st == ProcessStreamStats([nls |-> nls1, errs |-> NoErr], a.streamStats, so)
        nls3 == ProcessFlowStats(st.nls, a.flowStats, fo)
    IN [nodeLevelStats |-> nls3, queryLevelStats |-> ProcessQueryLevelStats(nls3), errs |-> st.errs]

(***************************************************************************)
(* Inputs: physical plans.  A plan maps node ids to flow specs; a flow     *)
(* spec lists processors, each with output routers, each with stream       *)
(* endpoints.                                                              *)
(***************************************************************************)
StreamEndpointSpec(id, type, target) == [StreamID |-> id, Type |-> type, TargetNodeID |-> target]

ProcessorSpec(id, streams) ==
    [ProcessorID |-> id, Output |-> IF streams = <<>> THEN <<>> ELSE <<[Streams |-> streams]>>]

FlowSpec(procs) == [Processors |-> procs]

\* Node 1 runs processors 1 and 2, each with a remote stream to node 2 (and a
\* local stream 3); node 2 runs processor 3.
PlanA ==
    (1 :> FlowSpec(<<ProcessorSpec(1, <<StreamEndpointSpec(1, "REMOTE", 2),
                                        StreamEndpointSpec(3, "LOCAL", 1)>>),
                     ProcessorSpec(2, <<StreamEndpointSpec(2, "REMOTE", 2)>>)>>))
    @@ (2 :> FlowSpec(<<ProcessorSpec(3, <<>>)>>))

\* Node 1 runs processor 1 with remote stream 1 to node 2; node 2 runs
\* processors 2 and 3, processor 3 with remote stream 2 to node 1.
PlanB ==
    (1 :> FlowSpec(<<ProcessorSpec(1, <<StreamEndpointSpec(1, "REMOTE", 2)>>)>>))
    @@ (2 :> FlowSpec(<<ProcessorSpec(2, <<>>),
                        ProcessorSpec(3, <<StreamEndpointSpec(2, "REMOTE", 1)>>)>>))

AnalyzerPlans == {PlanA, PlanB}

(***************************************************************************)
(* Inputs: extracted traces.  A component id is [Type, ID, NodeID,         *)
(* FlowID]; a trace maps some component ids to bags.                       *)
(***************************************************************************)
ComponentID(type, id, nodeID, flowID) == [Type |-> type, ID |-> id, NodeID |-> nodeID, FlowID |-> flowID]

Opt == {Unset} \cup {Some(x) : x \in 0..MaxVal}

KVBag(b, t, k, c) == Bag(Unset, Unset, Unset, Unset, b, t, k, c, Unset)

NetBag(br, mr, bs, ms, mem) == Bag(br, mr, bs, ms, Unset, Unset, Unset, Unset, mem)

FlowBag(mem) == Bag(Unset, Unset, Unset, Unset, Unset, Unset, Unset, Unset, mem)

\* All traces over the components C, the bag of component c drawn from B[c.Type].
TracesOver(C, B) ==
    UNION {{m \in [D -> UNION {B[t] : t \in DOMAIN B}] : \A c \in D : m[c] \in B[c.Type]} : D \in SUBSET C}

(***************************************************************************)
(* The analyzer: state and actions.                                        *)
(***************************************************************************)
NoMetadata == [processorStats |-> EmptyMap, streamStats |-> EmptyMap, flowStats |-> EmptyMap,
               unbuilt |-> TRUE]

NoDriver == [queryLevelStats |-> ZeroQueryLevelStats, errs |-> NoErr]

AnalyzerInit(plans) ==
    /\ plan \in plans
    /\ md = NoMetadata
    /\ nodeLevelStats = EmptyNodeLevelStats
    /\ queryLevelStats = ZeroQueryLevelStats
    /\ last = "none"
    /\ arg = EmptyMap
    /\ visited = {}
    /\ ret = NoErr
    /\ fms = <<>>
    /\ fms0 = <<>>
    /\ trace = EmptyMap
    /\ drv = NoDriver

\* NewFlowMetadata(plan) followed by MakeTraceAnalyzer.
NewFlowMetadata ==
    /\ last = "none"
    /\ \E order \in Orders(DOMAIN plan) : md' = NewFlowMetadataIn(plan, order)
    /\ last' = "NewFlowMetadata"
    /\ UNCHANGED <<plan, nodeLevelStats, queryLevelStats, arg, visited, ret>>
    /\ UNCHANGED driverVars

FlowLenOK(a) == \A n \in DOMAIN a.flowStats : Len(a.flowStats[n].stats) <= MaxFlowLen

\* a.AddTrace(trace, _) where ExtractStatsFromSpans(trace, _) = m.
AddTrace(m) ==
    /\ last # "none"
    /\ \E order \in Orders(DOMAIN m) :
          LET r == AddTraceIn(md, m, order)
          IN /\ FlowLenOK(r.md)
             /\ md' = r.md
             /\ ret' = r.err
             /\ visited' = r.visited
    /\ arg' = m
    /\ last' = "AddTrace"
    /\ UNCHANGED <<plan, nodeLevelStats, queryLevelStats>>
    /\ UNCHANGED driverVars

\* a.ProcessStats().  The ranges over processorStats and flowStats only add to
\* sums and running maxima, which no order of visit changes, so one order stands
\* for all; the range over streamStats also orders the combined error.
ProcessStats ==
    /\ last # "none"
    /\ \E so \in Orders(DOMAIN md.streamStats) :
          LET r == ProcessStatsIn(md, AnOrder(DOMAIN md.processorStats), so, AnOrder(DOMAIN md.flowStats))
          IN /\ nodeLevelStats' = r.nodeLevelStats
             /\ queryLevelStats' = r.queryLevelStats
             /\ ret' = r.errs
    /\ arg' = EmptyMap
    /\ visited' = {}
    /\ last' = "ProcessStats"
    /\ UNCHANGED <<plan, md>>
    /\ UNCHANGED driverVars

(***************************************************************************)
(* Spec: one analyzer over a plan, any sequence of AddTrace and            *)
(* ProcessStats calls; traces name known and unknown components.           *)
(***************************************************************************)
IngestComponents ==
    {ComponentID("PROCESSOR", 1, 1, 1), ComponentID("PROCESSOR", 4, 1, 1),
     ComponentID("STREAM", 1, 1, 1), ComponentID("STREAM", 3, 1, 1),
     ComponentID("FLOW", 0, 1, 1), ComponentID("FLOW", 0, 1, 2), ComponentID("FLOW", 0, 3, 1)}

IngestBags ==
    [PROCESSOR |-> {KVBag(Some(MaxVal), Unset, Some(0), Some(1))},
     STREAM |-> {NetBag(Some(1), Unset, Unset, Some(MaxVal), Some(0))},
     FLOW |-> {FlowBag(Some(MaxVal)), FlowBag(Unset)}]

IngestTraces == {m \in TracesOver(IngestComponents, IngestBags) : Cardinality(DOMAIN m) <= 2}

Init == AnalyzerInit({PlanA})

AddTraceIngest == \E m \in IngestTraces : AddTrace(m)

Next == NewFlowMetadata \/ AddTraceIngest \/ ProcessStats

Spec == Init /\ [][Next]_vars

(***************************************************************************)
(* C1.  AddTrace: a trace holding a bag for a processor id, a stream id or *)
(* a flow node id that the topology does not register makes the call       *)
(* return a non-nil error, and the call stops at such an entry: the only   *)
(* unregistered entry it visited is the one its error names.  A call that  *)
(* returns nil visited every entry and all of them are registered.         *)
(***************************************************************************)
Registered(a, c) ==
    CASE c.Type = "PROCESSOR" -> c.ID \in DOMAIN a.processorStats
      [] c.Type = "STREAM" -> c.ID \in DOMAIN a.streamStats
      [] c.Type = "FLOW" -> c.NodeID \in DOMAIN a.flowStats
      [] OTHER -> TRUE

MissingError(c) ==
    CASE c.Type = "PROCESSOR" -> ProcessorMissing(c.ID)
      [] c.Type = "STREAM" -> StreamMissing(c.ID)
      [] c.Type = "FLOW" -> FlowMissing(c.FlowID, c.NodeID)

Unregistered(a, m) == {c \in DOMAIN m : ~Registered(a, c)}

C1_UnknownIdIsError ==
    last = "AddTrace" =>
        /\ Unregistered(md, arg) # {} => ret # NoErr
        /\ ret # NoErr =>
              \E c \in visited :
                  /\ ~Registered(md, c)
                  /\ ret = MissingError(c)
                  /\ \A d \in visited \ {c} : Registered(md, d)
        /\ ret = NoErr => visited = DOMAIN arg

C1_Witness ==
    /\ last = "AddTrace"
    /\ ret # NoErr
    /\ \E c \in visited : c.Type = "FLOW" /\ ~Registered(md, c)
    /\ \E d \in visited : Registered(md, d)

(***************************************************************************)
(* Specifications of the single-use lifecycle (NewFlowMetadata, one        *)
(* AddTrace, ProcessStats), each drawing the bags of one namespace from    *)
(* all of Opt.                                                             *)
(***************************************************************************)
\* SpecKV: traces over the three processors; BytesRead and ContentionTime take
\* one value of Opt, TuplesRead and KVTime are unset, 1 or MaxVal.
KVComponents == {ComponentID("PROCESSOR", p, 1, 1) : p \in {1, 2, 3}}

KVBags == [PROCESSOR |-> {KVBag(x, y, y, x) : x \in Opt, y \in {Unset, Some(1), Some(MaxVal)}}]

KVTraces == TracesOver(KVComponents, KVBags)

AddTraceKV == last = "NewFlowMetadata" /\ \E m \in KVTraces : AddTrace(m)

NextKV == NewFlowMetadata \/ AddTraceKV \/ ProcessStats

SpecKV == AnalyzerInit(AnalyzerPlans) /\ [][NextKV]_vars

\* SpecNet: traces over the two remote streams; the byte counts take any values
\* of Opt, the message counts are unset or MaxVal.
NetComponents == {ComponentID("STREAM", i, 1, 1) : i \in {1, 2}}

NetBags ==
    [STREAM |-> {NetBag(br, mr, bs, ms, Unset) :
                    br \in Opt, bs \in Opt, mr \in {Unset, Some(MaxVal)}, ms \in {Unset, Some(MaxVal)}}]

NetTraces == TracesOver(NetComponents, NetBags)

AddTraceNet == last = "NewFlowMetadata" /\ \E m \in NetTraces : AddTrace(m)

NextNet == NewFlowMetadata \/ AddTraceNet \/ ProcessStats

SpecNet == AnalyzerInit(AnalyzerPlans) /\ [][NextNet]_vars

\* SpecMem: traces over the two remote streams and two flows of node 1; the peak
\* memory of each bag takes any value of Opt.
MemComponents ==
    {ComponentID("STREAM", 1, 1, 1), ComponentID("STREAM", 2, 1, 1),
     ComponentID("FLOW", 0, 1, 1), ComponentID("FLOW", 0, 1, 2)}

MemBags ==
    [STREAM |-> {NetBag(Some(1), Unset, Unset, Some(1), mem) : mem \in Opt},
     FLOW |-> {FlowBag(mem) : mem \in Opt}]

MemTraces == TracesOver(MemComponents, MemBags)

AddTraceMem == last = "NewFlowMetadata" /\ \E m \in MemTraces : AddTrace(m)

NextMem == NewFlowMetadata \/ AddTraceMem \/ ProcessStats

SpecMem == AnalyzerInit(AnalyzerPlans) /\ [][NextMem]_vars

\* SpecMixed: traces over processors and streams of both nodes, a few bags each.
MixedComponents ==
    {ComponentID("PROCESSOR", 1, 1, 1), ComponentID("PROCESSOR", 3, 2, 1),
     ComponentID("STREAM", 1, 1, 1), ComponentID("STREAM", 2, 1, 1)}

MixedBags ==
    [PROCESSOR |-> {KVBag(Some(1), Some(0), Some(MaxVal), Some(1)),
                    KVBag(Some(MaxVal), Some(1), Some(1), Unset)},
     STREAM |-> {NetBag(Some(1), Unset, Unset, Some(MaxVal), Some(1)),
                 NetBag(Unset, Some(1), Some(MaxVal), Unset, Some(MaxVal)),
                 NetBag(Some(1), Some(1), Some(1), Some(1), Unset)}]

MixedTraces == TracesOver(MixedComponents, MixedBags)

AddTraceMixed == last = "NewFlowMetadata" /\ \E m \in MixedTraces : AddTrace(m)

NextMixed == NewFlowMetadata \/ AddTraceMixed \/ ProcessStats

SpecMixed == AnalyzerInit(AnalyzerPlans) /\ [][NextMixed]_vars

(***************************************************************************)
(* Helpers of the properties: sums and maxima stated over sets.            *)
(***************************************************************************)
RECURSIVE SetSum(_, _)
SetSum(S, f) ==
    IF S = {} THEN 0
    ELSE LET x == CHOOSE y \in S : TRUE IN f[x] + SetSum(S \ {x}, f)

SetMax(S) == IF S = {} THEN 0 ELSE CHOOSE x \in S : \A y \in S : y <= x

NodeIDs == DOMAIN md.flowStats

\* processors and streams of node n whose bag is present
ProcsWithBag(n) ==
    {p \in DOMAIN md.processorStats :
        md.processorStats[p].nodeID = n /\ md.processorStats[p].stats # Nil}

StreamsWithBag == {i \in DOMAIN md.streamStats : md.streamStats[i].stats # Nil}

StreamBag(i) == Deref(md.streamStats[i].stats)

BytesBoth(i) == StreamBag(i).NetRx.BytesReceived.set /\ StreamBag(i).NetTx.BytesSent.set
BytesNeither(i) == ~StreamBag(i).NetRx.BytesReceived.set /\ ~StreamBag(i).NetTx.BytesSent.set
BytesExclusive(i) == ~BytesBoth(i) /\ ~BytesNeither(i)

MessagesBoth(i) == StreamBag(i).NetRx.MessagesReceived.set /\ StreamBag(i).NetTx.MessagesSent.set
MessagesNeither(i) == ~StreamBag(i).NetRx.MessagesReceived.set /\ ~StreamBag(i).NetTx.MessagesSent.set
MessagesExclusive(i) == ~MessagesBoth(i) /\ ~MessagesNeither(i)

\* the one value reported, whichever side reported it
BytesReported(i) ==
    IF StreamBag(i).NetRx.BytesReceived.set THEN StreamBag(i).NetRx.BytesReceived.v
    ELSE StreamBag(i).NetTx.BytesSent.v

MessagesReported(i) ==
    IF StreamBag(i).NetRx.MessagesReceived.set THEN StreamBag(i).NetRx.MessagesReceived.v
    ELSE StreamBag(i).NetTx.MessagesSent.v

ByteStreamsOf(n) == {i \in StreamsWithBag : md.streamStats[i].originNodeID = n /\ BytesExclusive(i)}

MessageStreamsOf(n) == {i \in StreamsWithBag : md.streamStats[i].originNodeID = n /\ MessagesExclusive(i)}

LeavesWith(err, prefix) == {k \in 1..Len(err) : err[k].wrap = <<prefix>>}

(***************************************************************************)
(* C2.  ProcessStats, network bytes sent and network messages: the entry   *)
(* of node n is the sum, over the streams with a bag that originate at n   *)
(* and report exactly one of received/sent, of the value reported; a node  *)
(* where no such stream originates has no entry; a stream reporting both   *)
(* or neither adds nothing and the call returns an error.                  *)
(***************************************************************************)
C2_NetworkExclusive ==
    last = "ProcessStats" =>
        /\ DOMAIN nodeLevelStats.NetworkBytesSentGroupedByNode = {n \in NodeIDs : ByteStreamsOf(n) # {}}
        /\ \A n \in NodeIDs :
              Get(nodeLevelStats.NetworkBytesSentGroupedByNode, n)
                 = SetSum(ByteStreamsOf(n), [i \in ByteStreamsOf(n) |-> BytesReported(i)])
        /\ DOMAIN nodeLevelStats.NetworkMessagesGroupedByNode = {n \in NodeIDs : MessageStreamsOf(n) # {}}
        /\ \A n \in NodeIDs :
              Get(nodeLevelStats.NetworkMessagesGroupedByNode, n)
                 = SetSum(MessageStreamsOf(n), [i \in MessageStreamsOf(n) |-> MessagesReported(i)])
        /\ (\E i \in StreamsWithBag : ~BytesExclusive(i))
              <=> LeavesWith(ret, "error calculating network bytes sent") # {}
        /\ (\E i \in StreamsWithBag : ~MessagesExclusive(i))
              <=> LeavesWith(ret, "error calculating number of network messages") # {}

\* Two streams of node 1 towards node 2: one reports only BytesReceived, the
\* other both; node 1 gets the first one's bytes, node 2 nothing, and an error
\* is returned.
C2_Witness ==
    /\ last = "ProcessStats"
    /\ \E i, j \in StreamsWithBag :
          /\ i # j
          /\ md.streamStats[i].originNodeID = 1 /\ md.streamStats[j].originNodeID = 1
          /\ md.streamStats[i].destinationNodeID = 2
          /\ StreamBag(i).NetRx.BytesReceived = Some(2) /\ ~StreamBag(i).NetTx.BytesSent.set
          /\ BytesBoth(j)
    /\ nodeLevelStats.NetworkBytesSentGroupedByNode = (1 :> 2)
    /\ ret # NoErr

(***************************************************************************)
(* C3.  As claimed: the error ProcessStats returns for a stream whose bag  *)
(* reports both or neither of BytesReceived/BytesSent carries the id of    *)
(* that stream.                                                            *)
(***************************************************************************)
C3_ErrorNamesStream ==
    last = "ProcessStats" =>
        \A i \in StreamsWithBag :
            ~BytesExclusive(i) =>
                \E k \in 1..Len(ret) : \E a \in 1..Len(ret[k].args) : ret[k].args[a] = i

(***************************************************************************)
(* C3, as amended.  The returned error holds one leaf per stream violating *)
(* the byte rule, wrapped with "error calculating network bytes sent"; the *)
(* leaf tells whether both or neither value was set and carries no         *)
(* argument, so the leaves of two streams violating the rule the same way  *)
(* are equal.                                                              *)
(***************************************************************************)
BothBytesLeaf ==
    [wrap |-> <<"error calculating network bytes sent">>,
     msg |-> "could not get network bytes; both BytesReceived and BytesSent are set",
     args |-> <<>>]

NeitherBytesLeaf ==
    [wrap |-> <<"error calculating network bytes sent">>,
     msg |-> "could not get network bytes; neither BytesReceived and BytesSent is set",
     args |-> <<>>]

C3_ErrorPerViolation ==
    last = "ProcessStats" =>
        /\ \A k \in LeavesWith(ret, "error calculating network bytes sent") :
              ret[k] \in {BothBytesLeaf, NeitherBytesLeaf}
        /\ Cardinality({k \in 1..Len(ret) : ret[k] = BothBytesLeaf})
              = Cardinality({i \in StreamsWithBag : BytesBoth(i)})
        /\ Cardinality({k \in 1..Len(ret) : ret[k] = NeitherBytesLeaf})
              = Cardinality({i \in StreamsWithBag : BytesNeither(i)})

\* Two different streams both report both values: two equal leaves.
C3_Witness ==
    /\ last = "ProcessStats"
    /\ Cardinality({i \in StreamsWithBag : BytesBoth(i)}) = 2
    /\ \E k, l \in 1..Len(ret) : k # l /\ ret[k] = BothBytesLeaf /\ ret[l] = BothBytesLeaf

(***************************************************************************)
(* C4.  ProcessStats, max memory usage: the value of node n is the maximum *)
(* (not the sum) of the peak-memory values present in the bags of the      *)
(* streams originating at n and in the entries of n's flow-slot list.      *)
(***************************************************************************)
PeakValues(n) ==
    {StreamBag(i).FlowStats.MaxMemUsage.v :
        i \in {j \in StreamsWithBag : md.streamStats[j].originNodeID = n
                                       /\ StreamBag(j).FlowStats.MaxMemUsage.set}}
    \cup {md.flowStats[n].stats[k].FlowStats.MaxMemUsage.v :
            k \in {l \in 1..Len(md.flowStats[n].stats) : md.flowStats[n].stats[l].FlowStats.MaxMemUsage.set}}

C4_MaxMemoryIsMax ==
    last = "ProcessStats" =>
        /\ \A n \in NodeIDs : Get(nodeLevelStats.MaxMemoryUsageGroupedByNode, n) = SetMax(PeakValues(n))
        /\ DOMAIN nodeLevelStats.MaxMemoryUsageGroupedByNode \subseteq NodeIDs

\* A stream of node 1 with peak 1 and a flow-slot entry of node 1 with peak 2:
\* node 1's value is 2, not 3.
C4_Witness ==
    /\ last = "ProcessStats"
    /\ \E i \in StreamsWithBag :
          /\ md.streamStats[i].originNodeID = 1
          /\ StreamBag(i).FlowStats.MaxMemUsage = Some(1)
    /\ \A i \in StreamsWithBag :
          md.streamStats[i].originNodeID = 1 => StreamBag(i).FlowStats.MaxMemUsage \in {Unset, Some(1)}
    /\ md.flowStats[1].stats = <<FlowBag(Some(2))>>
    /\ nodeLevelStats.MaxMemoryUsageGroupedByNode[1] = 2

(***************************************************************************)
(* C5.  ProcessStats, processor metrics: each of the four series has an    *)
(* entry exactly for the nodes owning a processor whose bag is present,    *)
(* and the entry is the sum of the field over those processors; absent     *)
(* bags raise no error.                                                    *)
(***************************************************************************)
ProcField(p, f) == Value(Deref(md.processorStats[p].stats).KV[f])

KVSeriesOK(series, f) ==
    /\ DOMAIN series = {n \in NodeIDs : ProcsWithBag(n) # {}}
    /\ \A n \in DOMAIN series :
          series[n] = SetSum(ProcsWithBag(n), [p \in ProcsWithBag(n) |-> ProcField(p, f)])

C5_ProcessorSums ==
    last = "ProcessStats" =>
        /\ KVSeriesOK(nodeLevelStats.KVBytesReadGroupedByNode, "BytesRead")
        /\ KVSeriesOK(nodeLevelStats.KVRowsReadGroupedByNode, "TuplesRead")
        /\ KVSeriesOK(nodeLevelStats.KVTimeGroupedByNode, "KVTime")
        /\ KVSeriesOK(nodeLevelStats.ContentionTimeGroupedByNode, "ContentionTime")
        /\ ret = NoErr

\* Node 1 owns processors 1 and 2 with BytesRead 1 and 2, node 2 owns processor
\* 3 whose bag is absent: node 1 reads 3 and node 2 has no entry.
C5_Witness ==
    /\ last = "ProcessStats"
    /\ ProcsWithBag(1) = {1, 2}
    /\ ProcField(1, "BytesRead") = 1 /\ ProcField(2, "BytesRead") = 2
    /\ 3 \in DOMAIN md.processorStats /\ md.processorStats[3].stats = Nil
    /\ nodeLevelStats.KVBytesReadGroupedByNode = (1 :> 3)

(***************************************************************************)
(* C6.  After ProcessStats the scalars reduce the series of the same call: *)
(* sums over the nodes, and for MaxMemUsage the maximum (0 when empty).    *)
(***************************************************************************)
SeriesSum(series) == SetSum(DOMAIN series, series)

SeriesMax(series) == SetMax({series[n] : n \in DOMAIN series})

C6_QueryLevelReduces ==
    last = "ProcessStats" =>
        /\ queryLevelStats.NetworkBytesSent = SeriesSum(nodeLevelStats.NetworkBytesSentGroupedByNode)
        /\ queryLevelStats.KVBytesRead = SeriesSum(nodeLevelStats.KVBytesReadGroupedByNode)
        /\ queryLevelStats.KVRowsRead = SeriesSum(nodeLevelStats.KVRowsReadGroupedByNode)
        /\ queryLevelStats.KVTime = SeriesSum(nodeLevelStats.KVTimeGroupedByNode)
        /\ queryLevelStats.NetworkMessages = SeriesSum(nodeLevelStats.NetworkMessagesGroupedByNode)
        /\ queryLevelStats.MaxMemUsage = SeriesMax(nodeLevelStats.MaxMemoryUsageGroupedByNode)

\* Both nodes have entries in the byte, KV and memory series, and the maximum of
\* the memory series is not its sum.
C6_Witness ==
    /\ last = "ProcessStats"
    /\ DOMAIN nodeLevelStats.NetworkBytesSentGroupedByNode = {1, 2}
    /\ DOMAIN nodeLevelStats.KVBytesReadGroupedByNode = {1, 2}
    /\ DOMAIN nodeLevelStats.MaxMemoryUsageGroupedByNode = {1, 2}
    /\ queryLevelStats.MaxMemUsage = 2
    /\ SeriesSum(nodeLevelStats.MaxMemoryUsageGroupedByNode) = 3
    /\ queryLevelStats.NetworkBytesSent = 3

(***************************************************************************)
(* C7.  After ProcessStats the scalar ContentionTime is the sum of the     *)
(* KVTime of the processors with a bag, so it equals the scalar KVTime and *)
(* differs from the sum of the contention-time series whenever the two     *)
(* sums differ.                                                            *)
(***************************************************************************)
AllProcsWithBag == UNION {ProcsWithBag(n) : n \in NodeIDs}

C7_ContentionFromKVTime ==
    last = "ProcessStats" =>
        /\ queryLevelStats.ContentionTime
              = SetSum(AllProcsWithBag, [p \in AllProcsWithBag |-> ProcField(p, "KVTime")])
        /\ queryLevelStats.ContentionTime = queryLevelStats.KVTime
        /\ SeriesSum(nodeLevelStats.KVTimeGroupedByNode) # SeriesSum(nodeLevelStats.ContentionTimeGroupedByNode)
              => queryLevelStats.ContentionTime # SeriesSum(nodeLevelStats.ContentionTimeGroupedByNode)

\* The processors spent 3 in KV and 1 in contention; ContentionTime is 3.
C7_Witness ==
    /\ last = "ProcessStats"
    /\ SeriesSum(nodeLevelStats.KVTimeGroupedByNode) = 3
    /\ SeriesSum(nodeLevelStats.ContentionTimeGroupedByNode) = 1
    /\ queryLevelStats.ContentionTime = 3

(***************************************************************************)
(* SpecTopo: NewFlowMetadata over plans of up to two nodes, each with up   *)
(* to MaxProcs processors; processor and stream ids may repeat.            *)
(***************************************************************************)
MaxProcs == 2

TopoProcessorSpecs ==
    {ProcessorSpec(id, streams) :
        id \in {1, 2},
        streams \in {<<>>,
                     <<StreamEndpointSpec(1, "REMOTE", 2), StreamEndpointSpec(3, "LOCAL", 1)>>,
                     <<StreamEndpointSpec(2, "REMOTE", 1)>>}}

TopoFlowSpecs == {FlowSpec(procs) : procs \in UNION {[1..k -> TopoProcessorSpecs] : k \in 0..MaxProcs}}

TopoPlans == UNION {[D -> TopoFlowSpecs] : D \in SUBSET {1, 2}}

NextTopo == NewFlowMetadata

SpecTopo == AnalyzerInit(TopoPlans) /\ [][NextTopo]_vars

\* the processors of the plan, as (node, position) pairs, and its remote stream
\* endpoints, as (node, processor position, router position, stream position)
PlanProcessors == {<<n, k>> : n \in DOMAIN plan, k \in 1..MaxProcs} \cap
                  {x \in (DOMAIN plan) \X (1..MaxProcs) : x[2] <= Len(plan[x[1]].Processors)}

ProcessorAt(x) == plan[x[1]].Processors[x[2]]

PlanRemoteStreams ==
    {y \in PlanProcessors \X (1..1) \X (1..2) :
        /\ y[2] <= Len(ProcessorAt(y[1]).Output)
        /\ y[3] <= Len(ProcessorAt(y[1]).Output[y[2]].Streams)
        /\ ProcessorAt(y[1]).Output[y[2]].Streams[y[3]].Type = "REMOTE"}

StreamAt(y) == ProcessorAt(y[1]).Output[y[2]].Streams[y[3]]

AllBagsAbsent ==
    /\ \A p \in DOMAIN md.processorStats : md.processorStats[p].stats = Nil
    /\ \A i \in DOMAIN md.streamStats : md.streamStats[i].stats = Nil
    /\ \A n \in DOMAIN md.flowStats : md.flowStats[n].stats = <<>>

(***************************************************************************)
(* C10.  As claimed: after NewFlowMetadata the flow-slots are as many as   *)
(* the nodes of the plan, the processor identities as many as the          *)
(* processors of the plan, the stream identities as many as its remote     *)
(* streams, and every bag is absent and every flow-slot list empty.        *)
(***************************************************************************)
C10_CountsEqualPlan ==
    last = "NewFlowMetadata" =>
        /\ Cardinality(DOMAIN md.flowStats) = Cardinality(DOMAIN plan)
        /\ Cardinality(DOMAIN md.processorStats) = Cardinality(PlanProcessors)
        /\ Cardinality(DOMAIN md.streamStats) = Cardinality(PlanRemoteStreams)
        /\ AllBagsAbsent

(***************************************************************************)
(* C10, as amended.  After NewFlowMetadata the flow-slots are the nodes of *)
(* the plan, the processor identities are the distinct processor ids of    *)
(* the plan and the stream identities the distinct ids of its remote       *)
(* streams (local streams create none), so the counts are those of the     *)
(* processors and remote streams when no id repeats; every identity is     *)
(* owned by a node that declares it, every bag is absent and every         *)
(* flow-slot list empty.                                                   *)
(***************************************************************************)
C10_CountsEqualDistinctIds ==
    last = "NewFlowMetadata" =>
        /\ DOMAIN md.flowStats = DOMAIN plan
        /\ DOMAIN md.processorStats = {ProcessorAt(x).ProcessorID : x \in PlanProcessors}
        /\ DOMAIN md.streamStats = {StreamAt(y).StreamID : y \in PlanRemoteStreams}
        /\ \A p \in DOMAIN md.processorStats :
              \E x \in PlanProcessors :
                  ProcessorAt(x).ProcessorID = p /\ md.processorStats[p].nodeID = x[1]
        /\ \A i \in DOMAIN md.streamStats :
              \E y \in PlanRemoteStreams :
                  /\ StreamAt(y).StreamID = i
                  /\ md.streamStats[i].originNodeID = y[1][1]
                  /\ md.streamStats[i].destinationNodeID = StreamAt(y).TargetNodeID
        /\ (\A x1, x2 \in PlanProcessors : ProcessorAt(x1).ProcessorID = ProcessorAt(x2).ProcessorID => x1 = x2)
              => Cardinality(DOMAIN md.processorStats) = Cardinality(PlanProcessors)
        /\ (\A y1, y2 \in PlanRemoteStreams : StreamAt(y1).StreamID = StreamAt(y2).StreamID => y1 = y2)
              => Cardinality(DOMAIN md.streamStats) = Cardinality(PlanRemoteStreams)
        /\ AllBagsAbsent

\* Two nodes, three processors with two distinct ids, a local stream and two
\* remote streams with distinct ids.
C10_Witness ==
    /\ last = "NewFlowMetadata"
    /\ Cardinality(DOMAIN plan) = 2
    /\ Cardinality(PlanProcessors) = 3
    /\ Cardinality(DOMAIN md.processorStats) = 2
    /\ Cardinality(DOMAIN md.streamStats) = 2
    /\ \E x \in PlanProcessors : Len(ProcessorAt(x).Output) = 1 /\ Len(ProcessorAt(x).Output[1].Streams) = 2

(***************************************************************************)
(* GetQueryLevelStats(trace, _, flowMetadata).  st holds the list of       *)
(* FlowMetadata as the analyzers left them, queryLevelStats and errs; ao   *)
(* and so give, per topology, the orders in which AddTrace ranges over the *)
(* extracted map and ProcessStats over the streams.                        *)
(***************************************************************************)
\* The memory total, the sums and the result accumulated over the topologies.
DriverIterationAccumulates(st, i, m, ao, so) ==
    LET r == AddTraceIn(st.fms[i], m, ao)
        st1 == [st EXCEPT !.fms[i] = r.md]
    IN IF r.err # NoErr
       THEN [st1 EXCEPT !.errs = CombineErrors(@, Wrap(r.err, "error analyzing trace statistics"))]
       ELSE LET ps == ProcessStatsIn(r.md, AnOrder(DOMAIN r.md.processorStats), so,
                                     AnOrder(DOMAIN r.md.flowStats))
            IN IF ps.errs # NoErr
               THEN [st1 EXCEPT !.errs = CombineErrors(@, ps.errs)]
               ELSE [st1 EXCEPT !.queryLevelStats = Accumulate(@, ps.queryLevelStats)]

\* lines 366-376: one iteration of the loop, on topology i
DriverIteration(st, i, m, ao, so) ==
    LET r == AddTraceIn(st.fms[i], m, ao)
        st1 == [st EXCEPT !.fms[i] = r.md]
    IN IF r.err # NoErr
       THEN [st1 EXCEPT !.errs = CombineErrors(@, Wrap(r.err, "error analyzing trace statistics"))]
       ELSE LET ps == ProcessStatsIn(r.md, AnOrder(DOMAIN r.md.processorStats), so,
                                     AnOrder(DOMAIN r.md.flowStats))
            IN IF ps.errs # NoErr
               THEN [st1 EXCEPT !.errs = CombineErrors(@, ps.errs)]
               ELSE [st1 EXCEPT !.queryLevelStats = ps.queryLevelStats]

\* The loop returning at the first topology that fails.
RECURSIVE GetQueryLevelStatsLoopAborts(_, _, _, _, _)
GetQueryLevelStatsLoopAborts(st, i, m, ao, so) ==
    IF i > Len(st.fms) THEN st
    ELSE LET st1 == DriverIteration(st, i, m, ao[i], so[i])
         IN IF st1.errs # st.errs THEN st1
            ELSE GetQueryLevelStatsLoopAborts(st1, i + 1, m, ao, so)

RECURSIVE GetQueryLevelStatsLoop(_, _, _, _, _)
GetQueryLevelStatsLoop(st, i, m, ao, so) ==
    IF i > Len(st.fms) THEN st
    ELSE GetQueryLevelStatsLoop(DriverIteration(st, i, m, ao[i], so[i]), i + 1, m, ao, so)

GetQueryLevelStatsIn(flowMetadata, m, ao, so) ==
    GetQueryLevelStatsLoop([fms |-> flowMetadata, queryLevelStats |-> ZeroQueryLevelStats, errs |-> NoErr],
                           1, m, ao, so)

StreamOrders(flowMetadata) ==
    {so \in [1..Len(flowMetadata) -> UNION {Orders(DOMAIN flowMetadata[k].streamStats) : k \in 1..Len(flowMetadata)}] :
        \A k \in 1..Len(flowMetadata) : so[k] \in Orders(DOMAIN flowMetadata[k].streamStats)}

GetQueryLevelStats ==
    /\ \E ao \in [1..Len(fms) -> Orders(DOMAIN trace)], so \in StreamOrders(fms) :
          LET r == GetQueryLevelStatsIn(fms, trace, ao, so)
          IN /\ \A k \in 1..Len(fms) : FlowLenOK(r.fms[k])
             /\ fms' = r.fms
             /\ drv' = [queryLevelStats |-> r.queryLevelStats, errs |-> r.errs]
    /\ fms0' = fms
    /\ last' = "GetQueryLevelStats"
    /\ UNCHANGED <<plan, md, nodeLevelStats, queryLevelStats, arg, visited, ret, trace>>

(***************************************************************************)
(* SpecDriver: GetQueryLevelStats, called any number of times, over a list *)
(* of up to MaxTopos topologies and one extracted trace.  A topology is    *)
(* fresh from NewFlowMetadata or has been through an earlier AddTrace.     *)
(***************************************************************************)
MaxTopos == 2

\* Node 1 alone, running processor 1, without streams.
PlanC == (1 :> FlowSpec(<<ProcessorSpec(1, <<>>)>>))

Fresh(flows) == NewFlowMetadataIn(flows, AnOrder(DOMAIN flows))

EarlierTrace == (ComponentID("PROCESSOR", 2, 1, 1) :> KVBag(Some(1), Some(1), Some(MaxVal), Some(0)))

DriverTopologies ==
    {Fresh(PlanA), Fresh(PlanC),
     AddTraceIn(Fresh(PlanB), EarlierTrace, AnOrder(DOMAIN EarlierTrace)).md}

DriverComponents ==
    {ComponentID("PROCESSOR", 1, 1, 1), ComponentID("STREAM", 1, 1, 1), ComponentID("FLOW", 0, 1, 1)}

DriverBags ==
    [PROCESSOR |-> {KVBag(Some(1), Some(MaxVal), Some(1), Some(1))},
     STREAM |-> {NetBag(Some(MaxVal), Unset, Unset, Some(1), Some(1)),
                 NetBag(Some(1), Unset, Some(1), Unset, Unset),
                 NetBag(Unset, Unset, Some(1), Unset, Unset)},
     FLOW |-> {FlowBag(Some(MaxVal))}]

DriverTraces == {m \in TracesOver(DriverComponents, DriverBags) : Cardinality(DOMAIN m) <= 2}

DriverInit ==
    /\ plan = PlanA
    /\ md = NoMetadata
    /\ nodeLevelStats = EmptyNodeLevelStats
    /\ queryLevelStats = ZeroQueryLevelStats
    /\ last = "none"
    /\ arg = EmptyMap
    /\ visited = {}
    /\ ret = NoErr
    /\ fms \in UNION {[1..k -> DriverTopologies] : k \in 0..MaxTopos}
    /\ fms0 = fms
    /\ trace \in DriverTraces
    /\ drv = NoDriver

NextDriver == GetQueryLevelStats

SpecDriver == DriverInit /\ [][NextDriver]_vars

(***************************************************************************)
(* Helpers of the driver's properties, over the list as it was passed      *)
(* (fms0) and as the call left it (fms).                                   *)
(***************************************************************************)
Topos == 1..Len(fms0)

IngestFails(k) == Unregistered(fms0[k], trace) # {}

StreamViolations(a) ==
    {<<i, "bytes">> : i \in {j \in DOMAIN a.streamStats :
        /\ a.streamStats[j].stats # Nil
        /\ Deref(a.streamStats[j].stats).NetRx.BytesReceived.set
              = Deref(a.streamStats[j].stats).NetTx.BytesSent.set}}
    \cup
    {<<i, "messages">> : i \in {j \in DOMAIN a.streamStats :
        /\ a.streamStats[j].stats # Nil
        /\ Deref(a.streamStats[j].stats).NetRx.MessagesReceived.set
              = Deref(a.streamStats[j].stats).NetTx.MessagesSent.set}}

ReductionFails(k) == ~IngestFails(k) /\ StreamViolations(fms[k]) # {}

GoodTopos == {k \in Topos : ~IngestFails(k) /\ ~ReductionFails(k)}

ResultOf(a) ==
    ProcessStatsIn(a, AnOrder(DOMAIN a.processorStats), AnOrder(DOMAIN a.streamStats),
                   AnOrder(DOMAIN a.flowStats)).queryLevelStats

(***************************************************************************)
(* C8.  GetQueryLevelStats returns the query-level result of the last      *)
(* topology of the list whose ingestion and reduction both succeeded, and  *)
(* the zero value when there is none: never a sum over topologies, never   *)
(* the result of a topology whose reduction reported an error.             *)
(***************************************************************************)
C8_LastSuccessfulOnly ==
    last = "GetQueryLevelStats" =>
        drv.queryLevelStats =
            IF GoodTopos = {} THEN ZeroQueryLevelStats ELSE ResultOf(fms[SetMax(GoodTopos)])

\* Two topologies succeed with different results; the second one's is returned.
C8_Witness ==
    /\ last = "GetQueryLevelStats"
    /\ GoodTopos = {1, 2}
    /\ ResultOf(fms[1]) # ResultOf(fms[2])
    /\ ResultOf(fms[1]).KVBytesRead > 0
    /\ drv.queryLevelStats = ResultOf(fms[2])

(***************************************************************************)
(* C9.  GetQueryLevelStats never stops at a failure: every topology whose  *)
(* ingestion succeeds holds the bags of the trace afterwards, the returned *)
(* error is non-nil exactly when some topology failed, and it combines, in *)
(* list order, one wrapped ingestion error per topology that failed        *)
(* ingestion and the reduction errors of the topologies that failed        *)
(* reduction, and nothing else.                                            *)
(***************************************************************************)
IsIngestLeaf(e) == e.wrap = <<"error analyzing trace statistics">>

IngestLeaves == SelectSeq(drv.errs, IsIngestLeaf)

IngestFailed == {k \in Topos : IngestFails(k)}

\* the number of failed ingestions among the first k topologies
IngestRank(k) == Cardinality({j \in IngestFailed : j <= k})

TraceApplied(a) ==
    \A c \in DOMAIN trace :
        CASE c.Type = "PROCESSOR" -> a.processorStats[c.ID].stats = Ptr(trace[c])
          [] c.Type = "STREAM" -> a.streamStats[c.ID].stats = Ptr(trace[c])
          [] c.Type = "FLOW" -> \E l \in 1..Len(a.flowStats[c.NodeID].stats) :
                                    a.flowStats[c.NodeID].stats[l] = trace[c]

C9_FailuresCombinedNoAbort ==
    last = "GetQueryLevelStats" =>
        /\ \A k \in Topos : ~IngestFails(k) => TraceApplied(fms[k])
        /\ drv.errs # NoErr <=> GoodTopos # Topos
        /\ Len(IngestLeaves) = Cardinality(IngestFailed)
        /\ \A k \in IngestFailed :
              \E c \in Unregistered(fms0[k], trace) :
                  <<IngestLeaves[IngestRank(k)]>> = Wrap(MissingError(c), "error analyzing trace statistics")
        /\ Len(drv.errs) - Len(IngestLeaves)
              = SetSum({k \in Topos : ReductionFails(k)},
                       [k \in {j \in Topos : ReductionFails(j)} |-> Cardinality(StreamViolations(fms[k]))])

\* Topology 1 fails ingestion, topology 2 succeeds: the result is topology 2's
\* and the error is the one wrapped ingestion error of topology 1.
C9_Witness ==
    /\ last = "GetQueryLevelStats"
    /\ Len(fms0) = 2
    /\ IngestFails(1)
    /\ GoodTopos = {2}
    /\ drv.queryLevelStats = ResultOf(fms[2])
    /\ drv.queryLevelStats # ZeroQueryLevelStats
    /\ Len(drv.errs) = 1
    /\ IsIngestLeaf(drv.errs[1])

(***************************************************************************)
(* SpecPartial: the single-use lifecycle over the two remote streams, one  *)
(* processor and one flow; each of the five stream values is set or unset  *)
(* on its own, so a bag breaks the byte rule, the message rule, both or    *)
(* none, with or without a peak.                                           *)
(***************************************************************************)
PartialComponents ==
    {ComponentID("STREAM", 1, 1, 1), ComponentID("STREAM", 2, 1, 1),
     ComponentID("PROCESSOR", 1, 1, 1), ComponentID("FLOW", 0, 1, 1)}

PartialBags ==
    [STREAM |-> {NetBag(br, mr, bs, ms, mem) :
                    br \in {Unset, Some(1)}, bs \in {Unset, Some(MaxVal)},
                    mr \in {Unset, Some(MaxVal)}, ms \in {Unset, Some(1)},
                    mem \in {Unset, Some(MaxVal)}},
     PROCESSOR |-> {KVBag(Some(1), Some(MaxVal), Some(1), Some(0))},
     FLOW |-> {FlowBag(Some(1))}]

PartialTraces == TracesOver(PartialComponents, PartialBags)

AddTracePartial == last = "NewFlowMetadata" /\ \E m \in PartialTraces : AddTrace(m)

NextPartial == NewFlowMetadata \/ AddTracePartial \/ ProcessStats

SpecPartial == AnalyzerInit(AnalyzerPlans) /\ [][NextPartial]_vars

(***************************************************************************)
(* C11.  ProcessStats never stops at a stream that breaks the exclusivity  *)
(* rule.  The returned error holds one leaf for every stream breaking the  *)
(* byte rule and one for every stream breaking the message rule, and       *)
(* nothing else.  A stream adds its bytes whenever its bytes are exclusive *)
(* and its messages whenever its messages are exclusive, whatever its      *)
(* other metric does, and its peak memory always counts; the processors    *)
(* and the flow-slot lists are all visited, and the seven scalars reduce   *)
(* the series whether or not an error is returned.                         *)
(***************************************************************************)
BytesViolators == {i \in StreamsWithBag : ~BytesExclusive(i)}

MessagesViolators == {i \in StreamsWithBag : ~MessagesExclusive(i)}

C11_NoAbortOnViolation ==
    last = "ProcessStats" =>
        /\ Cardinality(LeavesWith(ret, "error calculating network bytes sent"))
              = Cardinality(BytesViolators)
        /\ Cardinality(LeavesWith(ret, "error calculating number of network messages"))
              = Cardinality(MessagesViolators)
        /\ Len(ret) = Cardinality(BytesViolators) + Cardinality(MessagesViolators)
        /\ \A n \in NodeIDs :
              /\ Get(nodeLevelStats.NetworkBytesSentGroupedByNode, n)
                    = SetSum(ByteStreamsOf(n), [i \in ByteStreamsOf(n) |-> BytesReported(i)])
              /\ Get(nodeLevelStats.NetworkMessagesGroupedByNode, n)
                    = SetSum(MessageStreamsOf(n), [i \in MessageStreamsOf(n) |-> MessagesReported(i)])
              /\ Get(nodeLevelStats.MaxMemoryUsageGroupedByNode, n) = SetMax(PeakValues(n))
        /\ KVSeriesOK(nodeLevelStats.KVBytesReadGroupedByNode, "BytesRead")
        /\ KVSeriesOK(nodeLevelStats.KVRowsReadGroupedByNode, "TuplesRead")
        /\ KVSeriesOK(nodeLevelStats.KVTimeGroupedByNode, "KVTime")
        /\ KVSeriesOK(nodeLevelStats.ContentionTimeGroupedByNode, "ContentionTime")
        /\ queryLevelStats =
              [NetworkBytesSent |-> SeriesSum(nodeLevelStats.NetworkBytesSentGroupedByNode),
               MaxMemUsage |-> SeriesMax(nodeLevelStats.MaxMemoryUsageGroupedByNode),
               KVBytesRead |-> SeriesSum(nodeLevelStats.KVBytesReadGroupedByNode),
               KVRowsRead |-> SeriesSum(nodeLevelStats.KVRowsReadGroupedByNode),
               KVTime |-> SeriesSum(nodeLevelStats.KVTimeGroupedByNode),
               NetworkMessages |-> SeriesSum(nodeLevelStats.NetworkMessagesGroupedByNode),
               ContentionTime |-> SeriesSum(nodeLevelStats.KVTimeGroupedByNode)]

\* Both streams leave node 1.  Stream i reports both byte values, one message
\* value and a peak; stream j reports one byte value and no message value.  Two
\* leaves are returned, node 1's bytes are j's, its messages are i's, its peak is
\* i's, and processor 1 was still summed.
C11_Witness ==
    /\ last = "ProcessStats"
    /\ \E i, j \in StreamsWithBag :
          /\ i # j
          /\ md.streamStats[i].originNodeID = 1 /\ md.streamStats[j].originNodeID = 1
          /\ BytesBoth(i) /\ MessagesExclusive(i)
          /\ StreamBag(i).FlowStats.MaxMemUsage = Some(MaxVal)
          /\ BytesExclusive(j) /\ MessagesNeither(j)
          /\ nodeLevelStats.NetworkBytesSentGroupedByNode = (1 :> BytesReported(j))
          /\ nodeLevelStats.NetworkMessagesGroupedByNode = (1 :> MessagesReported(i))
    /\ nodeLevelStats.MaxMemoryUsageGroupedByNode = (1 :> MaxVal)
    /\ Len(ret) = 2
    /\ ProcsWithBag(1) = {1}
    /\ queryLevelStats.KVRowsRead = MaxVal

(***************************************************************************)
(* What one AddTrace call does to the topology.  a is the topology before  *)
(* the call, b the one after, m the trace and vis the entries the loop     *)
(* visited.  A processor or stream named by a visited entry holds that     *)
(* entry's bag, any other holds the bag it held in a; the list of a node   *)
(* is its list in a followed by the bags of the visited flow entries of    *)
(* that node, in the order of the visit.                                   *)
(***************************************************************************)
EntriesFor(vis, type, id) == {c \in vis : c.Type = type /\ c.ID = id}

FlowEntriesFor(vis, n) == {c \in vis : c.Type = "FLOW" /\ c.NodeID = n}

AttachedFrom(before, after, m, cs) ==
    IF cs = {} THEN after = before ELSE \E c \in cs : after = Ptr(m[c])

AppliedEntries(a, b, m, vis) ==
    /\ DOMAIN b.processorStats = DOMAIN a.processorStats
    /\ DOMAIN b.streamStats = DOMAIN a.streamStats
    /\ DOMAIN b.flowStats = DOMAIN a.flowStats
    /\ \A p \in DOMAIN a.processorStats :
          /\ b.processorStats[p].nodeID = a.processorStats[p].nodeID
          /\ AttachedFrom(a.processorStats[p].stats, b.processorStats[p].stats, m,
                          EntriesFor(vis, "PROCESSOR", p))
    /\ \A i \in DOMAIN a.streamStats :
          /\ b.streamStats[i].originNodeID = a.streamStats[i].originNodeID
          /\ b.streamStats[i].destinationNodeID = a.streamStats[i].destinationNodeID
          /\ AttachedFrom(a.streamStats[i].stats, b.streamStats[i].stats, m,
                          EntriesFor(vis, "STREAM", i))
    /\ \A n \in DOMAIN a.flowStats :
          \E o \in Orders(FlowEntriesFor(vis, n)) :
              b.flowStats[n].stats = a.flowStats[n].stats \o [k \in 1..Len(o) |-> m[o[k]]]

(***************************************************************************)
(* C12.  An AddTrace call that fails on an unknown id returns a non-nil    *)
(* error and undoes nothing: every entry visited before the failing one    *)
(* stays attached or appended exactly as applied, every identity not       *)
(* visited keeps the bag it had before the call, and the stats of the      *)
(* analyzer are untouched.                                                 *)
(***************************************************************************)
C12_FailedAddTraceKeepsApplied ==
    [][(last' = "AddTrace" /\ Unregistered(md, arg') # {}) =>
          /\ ret' # NoErr
          /\ AppliedEntries(md, md', arg', visited')
          /\ nodeLevelStats' = nodeLevelStats
          /\ queryLevelStats' = queryLevelStats]_vars

\* A failed call whose trace named processor 1 and an unknown component, and
\* visited processor 1 first: processor 1 holds the bag of this trace, and stream
\* 1, which the trace does not name, still holds a bag of an earlier call.
C12_Witness ==
    /\ last = "AddTrace"
    /\ ret # NoErr
    /\ \E c \in visited :
          /\ c.Type = "PROCESSOR" /\ c.ID = 1
          /\ md.processorStats[1].stats = Ptr(arg[c])
    /\ EntriesFor(DOMAIN arg, "STREAM", 1) = {}
    /\ md.streamStats[1].stats # Nil

(***************************************************************************)
(* SpecRepeat: one analyzer and any sequence of AddTrace calls; the traces *)
(* carry one of two processor bags and one of two flow bags, and may name  *)
(* an unknown processor.                                                   *)
(***************************************************************************)
RepeatComponents ==
    {ComponentID("PROCESSOR", 1, 1, 1), ComponentID("PROCESSOR", 4, 1, 1),
     ComponentID("STREAM", 1, 1, 1),
     ComponentID("FLOW", 0, 1, 1), ComponentID("FLOW", 0, 1, 2)}

RepeatBags ==
    [PROCESSOR |-> {KVBag(Some(1), Unset, Unset, Unset), KVBag(Some(MaxVal), Unset, Unset, Unset)},
     STREAM |-> {NetBag(Some(1), Unset, Unset, Some(1), Unset)},
     FLOW |-> {FlowBag(Some(1)), FlowBag(Some(MaxVal))}]

RepeatTraces == {m \in TracesOver(RepeatComponents, RepeatBags) : Cardinality(DOMAIN m) <= 2}

AddTraceRepeat == \E m \in RepeatTraces : AddTrace(m)

NextRepeat == NewFlowMetadata \/ AddTraceRepeat

SpecRepeat == AnalyzerInit({PlanA}) /\ [][NextRepeat]_vars

(***************************************************************************)
(* C13.  As claimed: after every AddTrace call a processor or stream that  *)
(* the call's trace names holds the bag of that trace, one that the trace  *)
(* does not name keeps its bag, and every flow-slot list keeps what it     *)
(* held, in order, in front of what the call appended.                     *)
(***************************************************************************)
IsPrefix(s, t) == Len(s) <= Len(t) /\ SubSeq(t, 1, Len(s)) = s

C13_LastReferencingCallWins ==
    [][last' = "AddTrace" =>
          /\ \A p \in DOMAIN md.processorStats :
                AttachedFrom(md.processorStats[p].stats, md'.processorStats[p].stats, arg',
                             EntriesFor(DOMAIN arg', "PROCESSOR", p))
          /\ \A i \in DOMAIN md.streamStats :
                AttachedFrom(md.streamStats[i].stats, md'.streamStats[i].stats, arg',
                             EntriesFor(DOMAIN arg', "STREAM", i))
          /\ \A n \in DOMAIN md.flowStats :
                IsPrefix(md.flowStats[n].stats, md'.flowStats[n].stats)]_vars

(***************************************************************************)
(* C13, as amended.  After every AddTrace call a processor or stream holds *)
(* the bag of the last call that reached its entry, which a call returning *)
(* nil does for every entry of its trace and a failing call only for the   *)
(* entries in front of the unknown one; a processor or stream that no      *)
(* entry reached keeps its bag.  A flow-slot list is its previous list     *)
(* followed by the flow bags the call reached, in the order it reached     *)
(* them, so nothing is ever removed from it.                               *)
(***************************************************************************)
C13_LastReachingCallWins ==
    [][last' = "AddTrace" =>
          /\ AppliedEntries(md, md', arg', visited')
          /\ ret' = NoErr => visited' = DOMAIN arg'
          /\ \A n \in DOMAIN md.flowStats :
                /\ IsPrefix(md.flowStats[n].stats, md'.flowStats[n].stats)
                /\ Len(md'.flowStats[n].stats)
                      = Len(md.flowStats[n].stats) + Cardinality(FlowEntriesFor(visited', n))]_vars

\* The last call named processor 1 and one flow of node 1 and returned nil:
\* processor 1, which held the other bag before, holds this call's bag, and node
\* 1's list is an earlier call's flow bag followed by this call's.
C13_Witness ==
    /\ last = "AddTrace"
    /\ ret = NoErr
    /\ \E c, f \in DOMAIN arg :
          /\ c.Type = "PROCESSOR" /\ f.Type = "FLOW"
          /\ arg[c] = KVBag(Some(1), Unset, Unset, Unset)
          /\ md.processorStats[1].stats = Ptr(arg[c])
          /\ arg[f] = FlowBag(Some(1))
          /\ md.flowStats[1].stats = <<FlowBag(Some(MaxVal)), FlowBag(Some(1))>>
    /\ md.streamStats[1].stats # Nil

(***************************************************************************)
(* SpecAccumulate: a caller holds two QueryLevelStats values a and b and   *)
(* folds each into the other, a.Accumulate(b) and b.Accumulate(a), once    *)
(* each and in either order.  queryLevelStats is the receiver a,           *)
(* drv.queryLevelStats the receiver b, arg the two values at the start and *)
(* visited the calls made.  Every additive field is 0 or MaxVal, the peak  *)
(* memory 1 or MaxVal.                                                     *)
(***************************************************************************)
QueryLevelStatsValues ==
    [NetworkBytesSent : {0, MaxVal}, MaxMemUsage : {1, MaxVal}, KVBytesRead : {0, MaxVal},
     KVRowsRead : {0, MaxVal}, KVTime : {0, MaxVal}, NetworkMessages : {0, MaxVal},
     ContentionTime : {0, MaxVal}]

AccumulateInit ==
    /\ plan = PlanC
    /\ md = NoMetadata
    /\ nodeLevelStats = EmptyNodeLevelStats
    /\ \E a, b \in QueryLevelStatsValues :
          /\ queryLevelStats = a
          /\ drv = [queryLevelStats |-> b, errs |-> NoErr]
          /\ arg = <<a, b>>
    /\ last = "none"
    /\ visited = {}
    /\ ret = NoErr
    /\ fms = <<>>
    /\ fms0 = <<>>
    /\ trace = EmptyMap

\* a.Accumulate(b), b still as constructed
AccumulateReceiver ==
    /\ "a" \notin visited
    /\ queryLevelStats' = Accumulate(queryLevelStats, arg[2])
    /\ visited' = visited \cup {"a"}
    /\ last' = "Accumulate"
    /\ UNCHANGED <<plan, md, nodeLevelStats, arg, ret, fms, fms0, trace, drv>>

\* b.Accumulate(a), a as constructed
AccumulateOther ==
    /\ "b" \notin visited
    /\ drv' = [drv EXCEPT !.queryLevelStats = Accumulate(@, arg[1])]
    /\ visited' = visited \cup {"b"}
    /\ last' = "Accumulate"
    /\ UNCHANGED <<plan, md, nodeLevelStats, queryLevelStats, arg, ret, fms, fms0, trace>>

NextAccumulate == AccumulateReceiver \/ AccumulateOther

SpecAccumulate == AccumulateInit /\ [][NextAccumulate]_vars

(***************************************************************************)
(* C14.  After a.Accumulate(b) each of NetworkBytesSent, KVBytesRead,      *)
(* KVRowsRead, KVTime, NetworkMessages and ContentionTime of a is its      *)
(* previous value plus b's, and MaxMemUsage of a is the larger of its      *)
(* previous value and b's; once b.Accumulate(a) has run on the values as   *)
(* constructed too, the two receivers are equal.                           *)
(***************************************************************************)
AdditiveFields ==
    {"NetworkBytesSent", "KVBytesRead", "KVRowsRead", "KVTime", "NetworkMessages", "ContentionTime"}

C14_AccumulateAddsAndMaxes ==
    /\ "a" \in visited =>
          /\ \A f \in AdditiveFields : queryLevelStats[f] = arg[1][f] + arg[2][f]
          /\ queryLevelStats.MaxMemUsage = SetMax({arg[1].MaxMemUsage, arg[2].MaxMemUsage})
    /\ "a" \notin visited => queryLevelStats = arg[1]
    /\ visited = {"a", "b"} => queryLevelStats = drv.queryLevelStats

\* a has the larger peak and b the larger byte count, both were folded: both
\* receivers hold a's peak, not the sum of the peaks, and the sum of the bytes.
C14_Witness ==
    /\ visited = {"a", "b"}
    /\ arg[1].MaxMemUsage = MaxVal /\ arg[2].MaxMemUsage = 1
    /\ arg[1].NetworkBytesSent = 0 /\ arg[2].NetworkBytesSent = MaxVal
    /\ arg[1].KVTime = MaxVal /\ arg[2].KVTime = MaxVal
    /\ drv.queryLevelStats.MaxMemUsage = MaxVal
    /\ drv.queryLevelStats.NetworkBytesSent = MaxVal
    /\ queryLevelStats.KVTime = MaxVal + MaxVal

(***************************************************************************)
(* SpecReingest: a caller either works one analyzer by hand (any sequence  *)
(* of AddTrace and ProcessStats calls over PlanA) or calls the driver      *)
(* GetQueryLevelStats, any number of times, on a list of up to MaxTopos    *)
(* fresh topologies.  Both draw their trace from the same few entries, all *)
(* registered in PlanA; stream 1 is unknown to PlanC.                      *)
(***************************************************************************)
ReingestComponents ==
    {ComponentID("PROCESSOR", 1, 1, 1), ComponentID("STREAM", 1, 1, 1), ComponentID("FLOW", 0, 1, 1)}

ReingestBags ==
    [PROCESSOR |-> {KVBag(Some(1), Some(MaxVal), Some(1), Some(1))},
     STREAM |-> {NetBag(Some(MaxVal), Unset, Unset, Some(1), Some(1)),
                 NetBag(Some(1), Unset, Some(1), Unset, Unset)},
     FLOW |-> {FlowBag(Some(MaxVal))}]

ReingestTraces == {m \in TracesOver(ReingestComponents, ReingestBags) : Cardinality(DOMAIN m) <= 2}

ReingestTopologies == {Fresh(PlanA), Fresh(PlanC)}

ReingestInit ==
    \/ AnalyzerInit({PlanA})
    \/ /\ plan = PlanA
       /\ md = NoMetadata
       /\ nodeLevelStats = EmptyNodeLevelStats
       /\ queryLevelStats = ZeroQueryLevelStats
       /\ last = "none"
       /\ arg = EmptyMap
       /\ visited = {}
       /\ ret = NoErr
       /\ fms \in UNION {[1..k -> ReingestTopologies] : k \in 1..MaxTopos}
       /\ fms0 = fms
       /\ trace \in ReingestTraces
       /\ drv = NoDriver

AddTraceReingest == \E m \in ReingestTraces : AddTrace(m)

NextReingest ==
    \/ fms = <<>> /\ NewFlowMetadata
    \/ fms = <<>> /\ AddTraceReingest
    \/ fms = <<>> /\ ProcessStats
    \/ fms # <<>> /\ GetQueryLevelStats

SpecReingest == ReingestInit /\ [][NextReingest]_vars

(***************************************************************************)
(* C15.  Ingesting a trace again does not change the results.  When an     *)
(* AddTrace call that returned nil is followed by an AddTrace call with    *)
(* the same trace, ProcessStats computes from the topology after the       *)
(* second call the node-level and query-level stats it computes from the   *)
(* topology after the first, although every flow-slot list has gained the  *)
(* flow bags of the trace once more.  A ProcessStats call that follows a   *)
(* ProcessStats call leaves the stats and the topology as they were.  A    *)
(* driver call that follows a driver call on the same list and trace       *)
(* returns the same query-level stats.                                     *)
(***************************************************************************)
StatsOf(a, so) ==
    LET r == ProcessStatsIn(a, AnOrder(DOMAIN a.processorStats), so, AnOrder(DOMAIN a.flowStats))
    IN <<r.nodeLevelStats, r.queryLevelStats>>

====
